---- MODULE Spec2Model ----
(***************************************************************************)
(* A model of the json::Object value tree and of json::Parser of           *)
(* cpplibutil (src/include/json_unstructured.h, src/json_unstructured.cpp).*)
(*                                                                         *)
(* A text (std::string) is a sequence of one-character strings.  An        *)
(* Object is a record [t, v]: t names the active variant of                *)
(* Object::ValueType and v holds its contents.  A json::Obj                *)
(* (std::map<std::string, Object>) is the sequence of its entries          *)
(* [first, second] in iteration order; a json::Arr is a sequence of        *)
(* Objects.  A C++ reference into the tree is the path of keys that leads  *)
(* to the node.  An operation that can throw returns a record with         *)
(* ok = FALSE and the exception's class in err; the tree it leaves behind  *)
(* is returned with it, since a throw does not undo earlier assignments.   *)
(***************************************************************************)
EXTENDS Integers, Sequences, FiniteSets, TLC

VARIABLES tree, call, pre, ref, log, prelog

vars == <<tree, call, pre, ref, log, prelog>>

op == call.op
arg == call.arg
res == call.res

(***************************************************************************)
(* Bounds of the model.                                                    *)
(***************************************************************************)
MaxPath == 2
MaxEntries == 2

MaxDepth == 1

(***************************************************************************)
(* Characters and texts.                                                   *)
(***************************************************************************)
AsciiOrder == <<"\t", "\n", " ", "\"", "+", ",", "-", ".",
                "0", "1", "2", "3", "4", "5", "6", "7", "8", "9", ":",
                "E", "[", "\\", "]",
                "a", "b", "c", "d", "e", "f", "g", "h", "i", "j", "k", "l", "m",
                "n", "o", "p", "q", "r", "s", "t", "u", "v", "w", "x", "y", "z",
                "{", "}">>

CharCode(c) == CHOOSE i \in DOMAIN AsciiOrder : AsciiOrder[i] = c

RECURSIVE StrLess(_, _)
StrLess(a, b) ==
    IF b = <<>> THEN FALSE
    ELSE IF a = <<>> THEN TRUE
    ELSE IF Head(a) = Head(b) THEN StrLess(Tail(a), Tail(b))
    ELSE CharCode(Head(a)) < CharCode(Head(b))

(***************************************************************************)
(* The variants of Object::ValueType and their constructors.               *)
(***************************************************************************)
ValueType == <<"Empty", "Null", "Str", "Int", "Double", "Bool", "Arr", "Obj">>

Types == {ValueType[i] : i \in DOMAIN ValueType}

Empty == [t |-> "Empty", v |-> <<>>]
NullObj == [t |-> "Null", v |-> <<>>]
StrObj(s) == [t |-> "Str", v |-> s]
IntObj(n) == [t |-> "Int", v |-> n]
DoubleObj(m, e) == [t |-> "Double", v |-> [m |-> m, e |-> e]]
BoolObj(b) == [t |-> "Bool", v |-> b]
ArrObj(a) == [t |-> "Arr", v |-> a]
ObjObj(m) == [t |-> "Obj", v |-> m]

Property(name, value) == [name |-> name, value |-> value]

(***************************************************************************)
(* std::map<std::string, Object>: find, at and operator[] followed by an   *)
(* assignment.  An entry is inserted before the first entry with a greater *)
(* key, so the entries stay in key order.                                  *)
(***************************************************************************)
MapFind(m, k) ==
    IF \E i \in DOMAIN m : m[i].first = k
    THEN CHOOSE i \in DOMAIN m : m[i].first = k
    ELSE 0

MapHas(m, k) == MapFind(m, k) # 0

MapAt(m, k) == m[MapFind(m, k)].second

LowerBound(m, k) == Cardinality({i \in DOMAIN m : StrLess(m[i].first, k)})

(* Defective variant: a new entry is appended instead of inserted in key order. *)
MapAssignUnordered(m, k, value) ==
    IF MapHas(m, k)
    THEN [m EXCEPT ![MapFind(m, k)].second = value]
    ELSE Append(m, [first |-> k, second |-> value])

MapAssign(m, k, value) ==
    IF MapHas(m, k)
    THEN [m EXCEPT ![MapFind(m, k)].second = value]
    ELSE LET n == LowerBound(m, k)
         IN SubSeq(m, 1, n) \o <<[first |-> k, second |-> value]>> \o SubSeq(m, n + 1, Len(m))

MapKeys(m) == [i \in DOMAIN m |-> m[i].first]

(***************************************************************************)
(* Typed extraction: Object::blank, Object::is<T>, Object::into<T>.        *)
(***************************************************************************)
blank(o) == o.t = "Empty"

is(o, T) == o.t = T

Ok(value) == [ok |-> TRUE, err |-> "", val |-> value]
Throw(e) == [ok |-> FALSE, err |-> e, val |-> <<>>]

(* Defective variant: Int converts to Double and Bool to Int. *)
intoCoercing(o, T) ==
    IF o.t = T THEN Ok(o.v)
    ELSE IF o.t = "Int" /\ T = "Double" THEN Ok([m |-> o.v, e |-> 0])
    ELSE IF o.t = "Bool" /\ T = "Int" THEN Ok(IF o.v THEN 1 ELSE 0)
    ELSE Throw("BadTypeError")

into(o, T) == IF o.t = T THEN Ok(o.v) ELSE Throw("BadTypeError")

(***************************************************************************)
(* Object::operator==: isEqual tries compareVariant for each type of its   *)
(* template argument list and answers whether any of them matched.         *)
(***************************************************************************)
(* Defective variant: boost::blank is not among the compared types. *)
isEqualTypesNoBlank == <<"Str", "Int", "Double", "Bool", "Arr", "Obj">>

isEqualTypes == <<"Empty", "Str", "Int", "Double", "Bool", "Arr", "Obj">>

RECURSIVE isEqual(_, _)
contentsEqual(T, a, b) ==
    CASE T = "Arr" -> /\ Len(a) = Len(b)
                      /\ \A i \in DOMAIN a : isEqual(a[i], b[i])
      [] T = "Obj" -> /\ Len(a) = Len(b)
                      /\ \A i \in DOMAIN a : /\ a[i].first = b[i].first
                                             /\ isEqual(a[i].second, b[i].second)
      [] OTHER -> a = b

compareVariant(T, lhs, rhs) ==
    IF is(lhs, T) /\ is(rhs, T)
    THEN contentsEqual(T, into(lhs, T).val, into(rhs, T).val)
    ELSE FALSE

isEqual(lhs, rhs) ==
    \E i \in DOMAIN isEqualTypes : compareVariant(isEqualTypes[i], lhs, rhs)

notEqual(lhs, rhs) == ~isEqual(lhs, rhs)

(***************************************************************************)
(* References into the tree: the node a path of keys leads to, and the     *)
(* tree after the node behind such a reference has been assigned.          *)
(***************************************************************************)
RECURSIVE NodeAt(_, _)
NodeAt(o, path) ==
    IF path = <<>> THEN o ELSE NodeAt(MapAt(o.v, Head(path)), Tail(path))

RECURSIVE Resolves(_, _)
Resolves(o, path) ==
    \/ path = <<>>
    \/ /\ o.t = "Obj"
       /\ MapHas(o.v, Head(path))
       /\ Resolves(MapAt(o.v, Head(path)), Tail(path))

RECURSIVE ReplaceAt(_, _, _)
ReplaceAt(o, path, node) ==
    IF path = <<>> THEN node
    ELSE ObjObj(MapAssign(o.v, Head(path),
                          ReplaceAt(MapAt(o.v, Head(path)), Tail(path), node)))

RECURSIVE Entries(_)
Entries(o) ==
    CASE o.t = "Arr" ->
           LET n[i \in 0..Len(o.v)] == IF i = 0 THEN 0 ELSE n[i - 1] + 1 + Entries(o.v[i])
           IN n[Len(o.v)]
      [] o.t = "Obj" ->
           LET n[i \in 0..Len(o.v)] ==
                   IF i = 0 THEN 0 ELSE n[i - 1] + 1 + Entries(o.v[i].second)
           IN n[Len(o.v)]
      [] OTHER -> 0

(***************************************************************************)
(* Path read: ExtractFromObj, Object::get(name), Object::get<T>(Path).     *)
(***************************************************************************)
(* Defective variant: a missing key reads as an Empty Object. *)
ExtractFromObjDefaulting(self, name) ==
    IF self.t = "Obj"
    THEN IF MapHas(self.v, name) THEN Ok(MapAt(self.v, name)) ELSE Ok(Empty)
    ELSE Throw("ObjectError")

ExtractFromObj(self, name) ==
    IF self.t = "Obj"
    THEN IF MapHas(self.v, name) THEN Ok(MapAt(self.v, name)) ELSE Throw("out_of_range")
    ELSE Throw("ObjectError")

get(self, name) == ExtractFromObj(self, name)

RECURSIVE getPath(_, _, _)
getPath(self, T, path) ==
    IF path = <<>>
    THEN into(self, T)
    ELSE LET r == get(self, Head(path))
         IN IF r.ok THEN getPath(r.val, T, Tail(path)) ELSE r

(***************************************************************************)
(* Path write: ExtractFromObjAndAdd, Object::getOrInsert(name) and         *)
(* Object::getOrInsert<T>(Path).  Each returns the node it refers to in    *)
(* val and the Object it was called on, as the call leaves it, in self.    *)
(***************************************************************************)
Done(self, val) == [ok |-> TRUE, err |-> "", self |-> self, val |-> val]
Fail(self, e) == [ok |-> FALSE, err |-> e, self |-> self, val |-> <<>>]

(* Defective variant: a missing key is inserted into a map that has lost its other keys. *)
ExtractFromObjAndAddAlone(self, name) ==
    IF self.t = "Obj"
    THEN LET val == IF MapHas(self.v, name)
                    THEN self.v
                    ELSE MapAssign(<<>>, name, ObjObj(<<>>))
         IN Done(ObjObj(val), MapAt(val, name))
    ELSE Fail(self, "ObjectError")

ExtractFromObjAndAdd(self, name) ==
    IF self.t = "Obj"
    THEN LET val == IF MapHas(self.v, name)
                    THEN self.v
                    ELSE MapAssign(self.v, name, ObjObj(<<>>))
         IN Done(ObjObj(val), MapAt(val, name))
    ELSE Fail(self, "ObjectError")

(* Defective variant: a blank Object is not turned into an Obj. *)
getOrInsertNoCreate(self, name) == ExtractFromObjAndAdd(self, name)

(* Defective variant: any Object that is not an Obj is replaced by one. *)
getOrInsertConverting(self, name) ==
    IF self.t # "Obj"
    THEN ExtractFromObjAndAdd(ObjObj(MapAssign(<<>>, name, ObjObj(<<>>))), name)
    ELSE ExtractFromObjAndAdd(self, name)

getOrInsert(self, name) ==
    IF blank(self)
    THEN ExtractFromObjAndAdd(ObjObj(MapAssign(<<>>, name, ObjObj(<<>>))), name)
    ELSE ExtractFromObjAndAdd(self, name)

RECURSIVE getOrInsertPath(_, _, _)
getOrInsertPath(self, T, path) ==
    IF path = <<>>
    THEN LET r == into(self, T)
         IN IF r.ok THEN Done(self, self) ELSE Fail(self, r.err)
    ELSE LET r == getOrInsert(self, Head(path))
         IN IF ~r.ok
            THEN r
            ELSE LET s == getOrInsertPath(r.val, T, Tail(path))
                     after == IF MapHas(r.self.v, Head(path))
                              THEN ObjObj(MapAssign(r.self.v, Head(path), s.self))
                              ELSE r.self
                 IN [s EXCEPT !.self = after]

(***************************************************************************)
(* Mutation: Object::addProperty, Config::addProperty, Object::push.       *)
(***************************************************************************)
addPropertyPath(self, path, prop) ==
    LET r == getOrInsertPath(self, "Obj", path)
    IN IF ~r.ok
       THEN r
       ELSE LET m == NodeAt(r.self, path).v
                hadProp == MapHas(m, prop.name)
                after == ObjObj(MapAssign(m, prop.name, prop.value))
            IN Done(ReplaceAt(r.self, path, after), hadProp)

(* Defective variant: an existing key keeps its old value. *)
addPropertyKeepOld(self, prop) ==
    LET r == into(self, "Obj")
    IN IF ~r.ok
       THEN Fail(self, r.err)
       ELSE LET hadProp == MapHas(r.val, prop.name)
            IN Done(IF hadProp THEN self ELSE ObjObj(MapAssign(r.val, prop.name, prop.value)),
                    hadProp)

addProperty(self, prop) ==
    LET r == into(self, "Obj")
    IN IF ~r.ok
       THEN Fail(self, r.err)
       ELSE LET hadProp == MapHas(r.val, prop.name)
            IN Done(ObjObj(MapAssign(r.val, prop.name, prop.value)), hadProp)

Config_addProperty(cfg, path, key, value) == addPropertyPath(cfg, path, Property(key, value))

(* Defective variant: the path is created on the way, as addProperty does. *)
pushPathCreating(self, path, value) ==
    LET r == getOrInsertPath(self, "Arr", path)
    IN IF ~r.ok
       THEN r
       ELSE Done(ReplaceAt(r.self, path, ArrObj(Append(r.val.v, value))), <<>>)

pushPath(self, path, value) ==
    LET r == getPath(self, "Arr", path)
    IN IF ~r.ok
       THEN Fail(self, r.err)
       ELSE Done(ReplaceAt(self, path, ArrObj(Append(r.val, value))), <<>>)

(* Defective variant: the value is put in front of the elements. *)
pushFront(self, value) ==
    LET r == into(self, "Arr")
    IN IF ~r.ok
       THEN Fail(self, r.err)
       ELSE Done(ArrObj(<<value>> \o r.val), <<>>)

push(self, value) ==
    LET r == into(self, "Arr")
    IN IF ~r.ok
       THEN Fail(self, r.err)
       ELSE Done(ArrObj(Append(r.val, value)), <<>>)

(***************************************************************************)
(* Introspection: ExtractKeysFromObj and Object::keys.                     *)
(***************************************************************************)
ExtractKeysFromObj(self) ==
    IF self.t = "Obj" THEN Ok(MapKeys(self.v)) ELSE Throw("ObjectError")

keys(self) == ExtractKeysFromObj(self)

(***************************************************************************)
(* Texts are indexed from 0 as in the source.  NPos is                     *)
(* static_cast<size_t>(-1); SizeMinus1 is the unsigned s.size() - 1, which *)
(* wraps to NPos for the empty text.                                       *)
(***************************************************************************)
NPos == -1

At(s, i) == s[i + 1]

substr(s, pos) == SubSeq(s, pos + 1, Len(s))

Slice(s, pos, len) == SubSeq(s, pos + 1, pos + len)

SizeMinus1(s) == IF Len(s) = 0 THEN NPos ELSE Len(s) - 1

Digits == <<"0", "1", "2", "3", "4", "5", "6", "7", "8", "9">>

isdigit(c) == \E i \in DOMAIN Digits : Digits[i] = c

DigitValue(c) == (CHOOSE i \in DOMAIN Digits : Digits[i] = c) - 1

(***************************************************************************)
(* The classification predicates of Parser.                                *)
(***************************************************************************)
find(s, needle) ==
    \E i \in DOMAIN s :
        /\ s[i] = needle
        /\ \A j \in 1..(i - 1) : s[j] = " " \/ s[j] = "\t"

obj(s) == find(s, "{")

arr(s) == find(s, "[")

FirstNonDigit(s, from) ==
    CHOOSE it \in from..Len(s) :
        /\ it = Len(s) \/ ~isdigit(At(s, it))
        /\ \A j \in from..(it - 1) : isdigit(At(s, j))

iPos(s) ==
    IF Len(s) < 1 THEN NPos
    ELSE IF At(s, 0) # "-" /\ ~isdigit(At(s, 0)) THEN NPos
    ELSE FirstNonDigit(s, 1) - 1

i(s) ==
    LET test(pos) == IF pos = NPos THEN FALSE ELSE pos = SizeMinus1(s)
    IN test(iPos(s))

dbl(s) ==
    LET endsWithInt(end) == iPos(end) = SizeMinus1(end)
        exponent(mid, midPos) ==
            IF midPos = SizeMinus1(mid) THEN TRUE
            ELSE IF midPos = NPos THEN FALSE
            ELSE IF At(mid, midPos + 1) = "e" \/ At(mid, midPos + 1) = "E"
            THEN endsWithInt(substr(mid, midPos + 2))
            ELSE FALSE
        fraction(mid) == exponent(mid, iPos(mid))
        test(pos) ==
            IF pos = NPos \/ pos = SizeMinus1(s) THEN FALSE
            ELSE IF At(s, pos + 1) = "." /\ Len(s) - 1 > pos + 1
            THEN fraction(substr(s, pos + 2))
            ELSE IF (At(s, pos + 1) = "e" \/ At(s, pos + 1) = "E") /\ Len(s) - 1 > pos + 1
            THEN endsWithInt(substr(s, pos + 2))
            ELSE FALSE
    IN test(iPos(s))

null(s) == s = <<"n", "u", "l", "l">>

b(s) == s = <<"t", "r", "u", "e">> \/ s = <<"f", "a", "l", "s", "e">>

(***************************************************************************)
(* Parser::str.  For a text of length 1 the loop starts behind its end     *)
(* condition (begin + 1 is past end - 1) and reads outside the text: the   *)
(* behaviour is undefined and ub is the outcome the build produces, one of *)
(* "true", "false" and "crash".                                            *)
(***************************************************************************)
UBOutcomes == {"true", "false", "crash"}

str(s, ub) ==
    IF Len(s) < 1 THEN "false"
    ELSE IF At(s, 0) # "\"" THEN "false"
    ELSE IF Len(s) = 1 THEN ub
    ELSE IF \E it \in 1..(Len(s) - 2) : At(s, it) = "\"" /\ At(s, it - 1) # "\\"
    THEN "false"
    ELSE IF At(s, Len(s) - 1) = "\"" THEN "true" ELSE "false"

(***************************************************************************)
(* util::extract<int> and util::extract<double>: operator>> of a           *)
(* stringstream reads the longest prefix that is a number and sets         *)
(* failbit when there is none or when the value does not fit the type.     *)
(* A double is the record [m, e] that stands for m * 10^e, with m not a    *)
(* multiple of 10 unless it is 0.                                          *)
(***************************************************************************)
IntMax == 2147483647

DigitRun(s, from) == IF from >= Len(s) THEN 0 ELSE FirstNonDigit(s, from) - from

RECURSIVE Magnitude(_, _)
Magnitude(ds, acc) ==
    IF ds = <<>> THEN acc
    ELSE IF acc = NPos THEN NPos
    ELSE LET d == DigitValue(Head(ds))
         IN IF acc > (IntMax - d) \div 10
            THEN NPos
            ELSE Magnitude(Tail(ds), acc * 10 + d)

HasAt(s, pos, c) == pos < Len(s) /\ At(s, pos) = c

extractInt(s) ==
    LET value(neg, n, mag) ==
            IF n = 0 \/ mag = NPos
            THEN Throw("ExtractionError")
            ELSE Ok(IF neg THEN 0 - mag ELSE mag)
        digits(neg, from, n) == value(neg, n, Magnitude(Slice(s, from, n), 0))
        signed(neg, from) == digits(neg, from, DigitRun(s, from))
    IN IF HasAt(s, 0, "-") THEN signed(TRUE, 1) ELSE signed(FALSE, 0)

RECURSIVE Normalize(_, _)
Normalize(m, e) ==
    IF m = 0 THEN [m |-> 0, e |-> 0]
    ELSE IF m % 10 = 0 THEN Normalize(m \div 10, e + 1)
    ELSE [m |-> m, e |-> e]

extractDouble(s) ==
    LET value(neg, mant, nFrac, eNeg, expo) ==
            IF mant = NPos \/ expo = NPos
            THEN Throw("ExtractionError")
            ELSE Ok(Normalize(IF neg THEN 0 - mant ELSE mant,
                              (IF eNeg THEN 0 - expo ELSE expo) - nFrac))
        expDigits(neg, mant, nFrac, eNeg, eFrom, nExp) ==
            IF nExp = 0
            THEN Throw("ExtractionError")
            ELSE value(neg, mant, nFrac, eNeg, Magnitude(Slice(s, eFrom, nExp), 0))
        expSign(neg, mant, nFrac, eNeg, eFrom) ==
            expDigits(neg, mant, nFrac, eNeg, eFrom, DigitRun(s, eFrom))
        exponent(neg, mant, nFrac, ePos) ==
            IF HasAt(s, ePos, "e") \/ HasAt(s, ePos, "E")
            THEN IF HasAt(s, ePos + 1, "-") THEN expSign(neg, mant, nFrac, TRUE, ePos + 2)
                 ELSE IF HasAt(s, ePos + 1, "+") THEN expSign(neg, mant, nFrac, FALSE, ePos + 2)
                 ELSE expSign(neg, mant, nFrac, FALSE, ePos + 1)
            ELSE value(neg, mant, nFrac, FALSE, 0)
        mantissa(neg, from, nInt, fracFrom, nFrac, ePos) ==
            IF nInt + nFrac = 0
            THEN Throw("ExtractionError")
            ELSE exponent(neg,
                          Magnitude(Slice(s, from, nInt) \o Slice(s, fracFrom, nFrac), 0),
                          nFrac, ePos)
        fraction(neg, from, nInt, fracFrom, nFrac) ==
            mantissa(neg, from, nInt, fracFrom, nFrac, fracFrom + nFrac)
        integer(neg, from, nInt) ==
            IF HasAt(s, from + nInt, ".")
            THEN fraction(neg, from, nInt, from + nInt + 1, DigitRun(s, from + nInt + 1))
            ELSE mantissa(neg, from, nInt, from + nInt, 0, from + nInt)
        signed(neg, from) == integer(neg, from, DigitRun(s, from))
    IN IF HasAt(s, 0, "-") THEN signed(TRUE, 1) ELSE signed(FALSE, 0)

(***************************************************************************)
(* util::stripQuotes.                                                      *)
(***************************************************************************)
stripQuotes(s) ==
    LET res1 == IF s # <<>> /\ (s[Len(s)] = "'" \/ s[Len(s)] = "\"")
                THEN SubSeq(s, 1, Len(s) - 1) ELSE s
    IN IF res1 # <<>> /\ (res1[1] = "'" \/ res1[1] = "\"") THEN Tail(res1) ELSE res1

(***************************************************************************)
(* The locator, js0n of the js0n subproject: one pass over the text that   *)
(* tracks the nesting depth and, at depth 1, the tokens.  With a key it    *)
(* returns the value that follows the first matching key; without one      *)
(* (klen = 0) it returns the token number index.  A string is returned     *)
(* without its quotes.  st is the scanner's state: go is the table in      *)
(* use, start and val are offsets or NPos.                                 *)
(***************************************************************************)
Whitespace == {"\t", " ", "\n"}

BareStart == {"-", "0", "1", "2", "3", "4", "5", "6", "7", "8", "9", "t", "f", "n"}

BareEnd == Whitespace \cup {",", "]", "}", ":"}

EscapeChars == {"\"", "\\", "b", "f", "n", "r", "t", "u"}

NotFound == [found |-> FALSE, ptr |-> 0, vlen |-> 0]

Found(ptr, vlen) == [found |-> TRUE, ptr |-> ptr, vlen |-> vlen]

PUSH(st, klen, cur, off) ==
    IF st.depth # 1 THEN st
    ELSE IF st.index = 0 THEN [st EXCEPT !.val = cur + off]
    ELSE IF klen > 0 /\ st.index = 1 THEN [st EXCEPT !.start = cur + off]
    ELSE [st EXCEPT !.index = st.index - 1]

CAPReturns(st, cur) == st.depth = 1 /\ st.val # NPos /\ st.index = 0

CAP(st, key, klen, json, cur) ==
    IF st.depth = 1 /\ klen > 0 /\ st.start # NPos
    THEN [st EXCEPT !.index = IF Slice(json, st.start, cur - st.start) = key THEN 0 ELSE 2,
                    !.start = NPos]
    ELSE st

RECURSIVE js0nScan(_, _, _, _, _)
js0nScan(key, klen, json, cur, st) ==
    IF cur >= Len(json) THEN NotFound
    ELSE LET c == At(json, cur)
             next(st2) == js0nScan(key, klen, json, cur + 1, st2)
             struct(st1) ==
                 IF c \in Whitespace \/ c = ":" \/ c = ","
                 THEN next([st1 EXCEPT !.go = "struct"])
                 ELSE IF c = "\""
                 THEN next([PUSH(st1, klen, cur, 1) EXCEPT !.go = "string"])
                 ELSE IF c = "[" \/ c = "{"
                 THEN LET up == PUSH(st1, klen, cur, 0)
                      IN next([up EXCEPT !.go = "struct", !.depth = up.depth + 1])
                 ELSE IF c = "]" \/ c = "}"
                 THEN LET down == [st1 EXCEPT !.go = "struct", !.depth = st1.depth - 1]
                      IN IF CAPReturns(down, cur)
                         THEN Found(down.val, cur + 1 - down.val)
                         ELSE next(CAP(down, key, klen, json, cur))
                 ELSE IF c \in BareStart
                 THEN next([PUSH(st1, klen, cur, 0) EXCEPT !.go = "bare"])
                 ELSE NotFound
         IN CASE st.go = "struct" -> struct(st)
              [] st.go = "bare" ->
                   IF c \in BareEnd
                   THEN IF CAPReturns(st, cur)
                        THEN Found(st.val, cur - st.val)
                        ELSE struct(CAP(st, key, klen, json, cur))
                   ELSE next(st)
              [] st.go = "string" ->
                   IF c = "\\" THEN next([st EXCEPT !.go = "esc"])
                   ELSE IF c = "\""
                   THEN IF CAPReturns(st, cur)
                        THEN Found(st.val, cur - st.val)
                        ELSE next([CAP(st, key, klen, json, cur) EXCEPT !.go = "struct"])
                   ELSE next(st)
              [] OTHER ->
                   IF c \in EscapeChars THEN next([st EXCEPT !.go = "string"]) ELSE NotFound

js0n(key, klen, json) ==
    js0nScan(key, klen, json, 0,
             [go |-> "struct", depth |-> 0, index |-> 1, start |-> NPos, val |-> NPos])

js0nIndex(index, json) ==
    js0nScan(<<>>, 0, json, 0,
             [go |-> "struct", depth |-> 0, index |-> index, start |-> NPos, val |-> NPos])

(***************************************************************************)
(* JsonStructured::lookupHelper, lookupPath for a path of one key, and     *)
(* lookupArray for the empty path: the value texts of the elements, the    *)
(* strings with their quotes.                                              *)
(***************************************************************************)
lookupHelper(key, data) ==
    LET located(r) ==
            IF ~r.found THEN Throw("FieldNotFoundError")
            ELSE Ok([ptr |-> r.ptr, len |-> r.vlen])
    IN located(js0n(key, Len(key), data))

lookupPath(json, key) == lookupHelper(key, json)

RECURSIVE lookupArrayFrom(_, _, _)
lookupArrayFrom(json, index, result) ==
    LET element(r) ==
            IF At(json, r.ptr - 1) = "\""
            THEN IF Len(json) > 0
                 THEN Ok(Slice(json, r.ptr - 1, r.vlen + 2))
                 ELSE Throw("ParseError")
            ELSE Ok(Slice(json, r.ptr, r.vlen))
        pushed(e) ==
            IF e.ok THEN lookupArrayFrom(json, index + 1, Append(result, e.val)) ELSE e
        located(r) == IF ~r.found THEN Ok(result) ELSE pushed(element(r))
    IN located(js0nIndex(index, json))

lookupArray(json) == lookupArrayFrom(json, 0, <<>>)

(***************************************************************************)
(* Parser::lookupValue and Parser::findKey.  findKey scans from offset     *)
(* start; resStart = Len(s) stands for the iterator end.                   *)
(***************************************************************************)
lookupValue(json, key) ==
    LET located(r) ==
            IF ~r.ok THEN r
            ELSE IF At(json, r.val.ptr - 1) = "\""
            THEN IF Len(json) > r.val.ptr
                 THEN Ok([ptr |-> r.val.ptr - 1, len |-> r.val.len + 2])
                 ELSE Throw("ParseError")
            ELSE r
    IN located(lookupPath(json, key))

(* Defective variant: a ':' before a key has started is passed over. *)
RECURSIVE findKeyScanLenient(_, _, _)
findKeyScanLenient(s, it, resStart) ==
    IF it >= Len(s) THEN Ok(substr(s, resStart))
    ELSE IF At(s, it) = "}" /\ resStart = Len(s) THEN Ok(<<>>)
    ELSE IF At(s, it) = "\"" /\ resStart # Len(s) /\ At(s, it - 1) # "\\"
    THEN Ok(Slice(s, resStart, it - resStart))
    ELSE IF At(s, it) = "\"" /\ resStart = Len(s)
    THEN findKeyScanLenient(s, it + 1, it + 1)
    ELSE findKeyScanLenient(s, it + 1, resStart)

RECURSIVE findKeyScan(_, _, _)
findKeyScan(s, it, resStart) ==
    IF it >= Len(s) THEN Ok(substr(s, resStart))
    ELSE IF At(s, it) = ":" /\ resStart = Len(s) THEN Throw("ParseError")
    ELSE IF At(s, it) = "}" /\ resStart = Len(s) THEN Ok(<<>>)
    ELSE IF At(s, it) = "\"" /\ resStart # Len(s) /\ At(s, it - 1) # "\\"
    THEN Ok(Slice(s, resStart, it - resStart))
    ELSE IF At(s, it) = "\"" /\ resStart = Len(s)
    THEN findKeyScan(s, it + 1, it + 1)
    ELSE findKeyScan(s, it + 1, resStart)

findKey(s, start) == findKeyScan(s, start, Len(s))

(***************************************************************************)
(* Parser::parseString, parseInt, parseDouble, parseBool, parseArr,        *)
(* parseObj, parseHelper and parse.  The key loop of parseObj runs until   *)
(* findKey returns the empty key; seen holds the scan positions the loop   *)
(* has started from, and a position that comes back means that the loop    *)
(* never ends, reported as the outcome "nontermination".                   *)
(***************************************************************************)
parseString(s) == Ok(StrObj(stripQuotes(s)))

parseInt(s) ==
    LET made(r) == IF r.ok THEN Ok(IntObj(r.val)) ELSE r
    IN made(extractInt(s))

parseDouble(s) ==
    LET made(r) == IF r.ok THEN Ok([t |-> "Double", v |-> r.val]) ELSE r
    IN made(extractDouble(s))

parseBool(s) ==
    IF s = <<"t", "r", "u", "e">> THEN Ok(BoolObj(TRUE)) ELSE Ok(BoolObj(FALSE))

RECURSIVE parseHelper(_, _)
RECURSIVE parseValues(_, _, _)
parseValues(values, ub, result) ==
    LET pushed(r) ==
            IF r.ok THEN parseValues(Tail(values), ub, Append(result, r.val)) ELSE r
    IN IF values = <<>> THEN Ok(ArrObj(result))
       ELSE pushed(parseHelper(Head(values), ub))

parseArr(s, ub) ==
    LET each(values) == IF values.ok THEN parseValues(values.val, ub, <<>>) ELSE values
    IN each(lookupArray(s))

RECURSIVE parseObjLoop(_, _, _, _, _)
parseObjLoop(s, ub, from, seen, result) ==
    LET assigned(key, ptr, len, r) ==
            IF ~r.ok THEN r
            ELSE parseObjLoop(s, ub, ptr + len, seen \cup {from},
                              MapAssign(result, key, r.val))
        value(key, at) ==
            IF ~at.ok THEN at
            ELSE assigned(key, at.val.ptr, at.val.len,
                          parseHelper(Slice(s, at.val.ptr, at.val.len), ub))
        found(key) ==
            IF ~key.ok THEN key
            ELSE IF key.val = <<>> THEN Ok(ObjObj(result))
            ELSE IF from \in seen THEN Throw("nontermination")
            ELSE value(key.val, lookupValue(s, key.val))
    IN found(findKey(s, from))

parseObj(s, ub) ==
    LET assigned(key, ptr, len, r) ==
            IF ~r.ok THEN r
            ELSE parseObjLoop(s, ub, ptr + len, {}, MapAssign(<<>>, key, r.val))
        value(key, at) ==
            IF ~at.ok THEN at
            ELSE assigned(key, at.val.ptr, at.val.len,
                          parseHelper(Slice(s, at.val.ptr, at.val.len), ub))
        found(key) ==
            IF ~key.ok THEN key
            ELSE IF key.val = <<>> THEN Throw("ParseError")
            ELSE value(key.val, lookupValue(s, key.val))
    IN found(findKey(s, 0))

parseHelper(s, ub) ==
    IF arr(s) THEN parseArr(s, ub)
    ELSE IF obj(s) THEN parseObj(s, ub)
    ELSE IF dbl(s) THEN parseDouble(s)
    ELSE IF i(s) THEN parseInt(s)
    ELSE IF b(s) THEN parseBool(s)
    ELSE IF null(s) THEN Ok(NullObj)
    ELSE CASE str(s, ub) = "true" -> parseString(s)
           [] str(s, ub) = "crash" -> Throw("crash")
           [] OTHER -> Throw("ParseError")

parse(json, ub) == parseHelper(json, ub)

(***************************************************************************)
(* Object::serialize.  A number is written by operator<< of a              *)
(* stringstream: an Int as its decimal digits, a Double as printf's %g     *)
(* with six significant digits writes it (the model's doubles have at most *)
(* six).                                                                   *)
(***************************************************************************)
RECURSIVE DecimalDigits(_)
DecimalDigits(n) ==
    IF n < 10 THEN <<Digits[n + 1]>>
    ELSE Append(DecimalDigits(n \div 10), Digits[(n % 10) + 1])

Zeros(n) == [k \in 1..n |-> "0"]

serializeInt(val) ==
    IF val < 0 THEN <<"-">> \o DecimalDigits(0 - val) ELSE DecimalDigits(val)

serializeDouble(val) ==
    LET sign == IF val.m < 0 THEN <<"-">> ELSE <<>>
        ds == DecimalDigits(IF val.m < 0 THEN 0 - val.m ELSE val.m)
        X == Len(ds) - 1 + val.e
        frac == IF Len(ds) > 1 THEN <<".">> \o Tail(ds) ELSE <<>>
        xs == DecimalDigits(IF X < 0 THEN 0 - X ELSE X)
    IN IF val.m = 0 THEN <<"0">>
       ELSE IF X < 0 - 4 \/ X >= 6
       THEN sign \o <<Head(ds)>> \o frac \o <<"e", IF X < 0 THEN "-" ELSE "+">>
                 \o (IF Len(xs) < 2 THEN <<"0">> ELSE <<>>) \o xs
       ELSE IF val.e >= 0 THEN sign \o ds \o Zeros(val.e)
       ELSE IF X >= 0
       THEN sign \o SubSeq(ds, 1, X + 1) \o <<".">> \o SubSeq(ds, X + 2, Len(ds))
       ELSE sign \o <<"0", ".">> \o Zeros(0 - X - 1) \o ds

RECURSIVE serialize(_)
serializeArr(val) ==
    LET out[k \in 0..Len(val)] ==
            IF k = 0 THEN <<"[">>
            ELSE out[k - 1] \o serialize(val[k]) \o (IF k < Len(val) THEN <<",">> ELSE <<>>)
    IN out[Len(val)] \o <<"]">>

serializeObj(val) ==
    LET out[k \in 0..Len(val)] ==
            IF k = 0 THEN <<"{">>
            ELSE out[k - 1] \o <<"\"">> \o val[k].first \o <<"\"", ":">>
                            \o serialize(val[k].second)
                            \o (IF k < Len(val) THEN <<",">> ELSE <<>>)
    IN out[Len(val)] \o <<"}">>

serialize(o) ==
    CASE o.t = "Empty" -> <<>>
      [] o.t = "Str" -> <<"\"">> \o o.v \o <<"\"">>
      [] o.t = "Null" -> <<"n", "u", "l", "l">>
      [] o.t = "Double" -> serializeDouble(o.v)
      [] o.t = "Int" -> serializeInt(o.v)
      [] o.t = "Bool" -> IF o.v THEN <<"t", "r", "u", "e">> ELSE <<"f", "a", "l", "s", "e">>
      [] o.t = "Arr" -> serializeArr(o.v)
      [] o.t = "Obj" -> serializeObj(o.v)

(***************************************************************************)
(* The inputs of the operations.                                           *)
(***************************************************************************)
Keys == {<<"a">>, <<"b">>}

RECURSIVE PathsOfLength(_)
PathsOfLength(n) ==
    IF n = 0 THEN {<<>>}
    ELSE {Append(path, key) : path \in PathsOfLength(n - 1), key \in Keys}

Paths == UNION {PathsOfLength(n) : n \in 0..MaxPath}

Values == {IntObj(10), ArrObj(<<>>)}

ConfigValues == {IntObj(10)}

PushValues == {NullObj, IntObj(10)}

RequestTypes == {"Obj", "Arr", "Int"}

ParseTexts ==
    { <<"{", "\"", "b", "\"", ":", "1", ",", "\"", "a", "\"", ":", "n", "u", "l", "l", "}">>,
      <<"{", "\"", "a", "\"", ":", "{", "\"", "b", "\"", ":", "[", "]", "}", "}">>,
      <<"[", "\"", "a", "\"", "]">>,
      <<"{", "a", ":", "1", "}">>,
      <<>> }

Parsed ==
    {[text |-> text, r |-> parse(text, ub)] : text \in ParseTexts, ub \in UBOutcomes}

NoArg == [path |-> <<>>, name |-> <<>>, value |-> Empty, T |-> "Empty", text |-> <<>>]

NoRef == [valid |-> FALSE, path |-> <<>>]

NoLog == <<>>

RefTo(path) == [valid |-> TRUE, path |-> path]

Result(r) == [ok |-> r.ok, err |-> r.err, val |-> r.val]

(***************************************************************************)
(* The state: tree is the Object the caller holds (json::Object obj; in    *)
(* the tests), call is the last call (op), its arguments (arg) and its     *)
(* outcome (res), pre is the tree before that call, and ref is the         *)
(* reference that getOrInsert<Obj> returned, valid until the next call.    *)
(* log is the logging::Log the caller holds with its subloggers and prelog *)
(* is the subLoggerStates of these loggers before the last call; both are  *)
(* NoLog while no Log is made.                                             *)
(***************************************************************************)
Call(name, a, r) == [op |-> name, arg |-> a, res |-> r]

Init ==
    /\ tree = Empty
    /\ call = Call("init", NoArg, Ok(<<>>))
    /\ pre = Empty
    /\ ref = NoRef
    /\ log = NoLog
    /\ prelog = NoLog

Mutated(name, a, r) ==
    /\ Entries(r.self) <= MaxEntries
    /\ tree' = r.self
    /\ call' = Call(name, a, Result(r))
    /\ pre' = tree
    /\ ref' = NoRef
    /\ UNCHANGED <<log, prelog>>

Observed(name, a, r) ==
    /\ call' = Call(name, a, r)
    /\ pre' = tree
    /\ ref' = NoRef
    /\ UNCHANGED <<log, prelog>>
    /\ UNCHANGED tree

AddPropertyPath ==
    \E path \in Paths, name \in Keys, value \in Values :
        Mutated("addPropertyPath",
                [NoArg EXCEPT !.path = path, !.name = name, !.value = value],
                addPropertyPath(tree, path, Property(name, value)))

AddProperty ==
    \E name \in Keys, value \in Values :
        Mutated("addProperty",
                [NoArg EXCEPT !.name = name, !.value = value],
                addProperty(tree, Property(name, value)))

ConfigAddProperty ==
    \E path \in Paths, key \in Keys, value \in ConfigValues :
        Mutated("Config::addProperty",
                [NoArg EXCEPT !.path = path, !.name = key, !.value = value],
                Config_addProperty(tree, path, key, value))

GetOrInsert ==
    \E T \in RequestTypes, path \in Paths :
        LET r == getOrInsertPath(tree, T, path)
        IN /\ Entries(r.self) <= MaxEntries
           /\ tree' = r.self
           /\ call' = Call("getOrInsert", [NoArg EXCEPT !.path = path, !.T = T], Result(r))
           /\ pre' = tree
           /\ ref' = IF r.ok /\ T = "Obj" THEN RefTo(path) ELSE NoRef
           /\ UNCHANGED <<log, prelog>>

WriteThroughRef ==
    \E k \in Keys, value \in Values :
        /\ ref.valid
        /\ LET m == NodeAt(tree, ref.path).v
               after == ReplaceAt(tree, ref.path, ObjObj(MapAssign(m, k, value)))
           IN /\ Entries(after) <= MaxEntries
              /\ tree' = after
              /\ call' = Call("writeThroughRef",
                               [NoArg EXCEPT !.path = ref.path, !.name = k, !.value = value],
                               Ok(<<>>))
              /\ pre' = tree
              /\ ref' = NoRef
              /\ UNCHANGED <<log, prelog>>

Get ==
    \E T \in RequestTypes, path \in Paths :
        Observed("get", [NoArg EXCEPT !.path = path, !.T = T], getPath(tree, T, path))

PushPath ==
    \E path \in Paths, value \in PushValues :
        Mutated("pushPath", [NoArg EXCEPT !.path = path, !.value = value],
                pushPath(tree, path, value))

Push ==
    \E value \in PushValues :
        Mutated("push", [NoArg EXCEPT !.value = value], push(tree, value))

KeysOf == Observed("keys", NoArg, keys(tree))

Serialize == Observed("serialize", NoArg, Ok(serialize(tree)))

Parse ==
    \E p \in Parsed :
        LET r == p.r
        IN /\ r.ok => Entries(r.val) <= MaxEntries
           /\ tree' = IF r.ok THEN r.val ELSE tree
           /\ call' = Call("parse", [NoArg EXCEPT !.text = p.text], r)
           /\ pre' = tree
           /\ ref' = NoRef
           /\ UNCHANGED <<log, prelog>>

Next ==
    \/ AddPropertyPath
    \/ AddProperty
    \/ ConfigAddProperty
    \/ GetOrInsert
    \/ WriteThroughRef
    \/ Get
    \/ PushPath
    \/ Push
    \/ KeysOf
    \/ Serialize
    \/ Parse

Spec == Init /\ [][Next]_vars

(***************************************************************************)
(* A second specification for the value operations, which leave the Object *)
(* alone: tree is any value tree of nesting depth at most MaxDepth, and    *)
(* each step compares it, asks for its type, extracts its contents, or     *)
(* serializes it and parses the text back.                                 *)
(***************************************************************************)
Leaves ==
    {Empty, NullObj, StrObj(<<"a">>), IntObj(10), DoubleObj(15, 0 - 1), DoubleObj(1, 0),
     BoolObj(TRUE), ArrObj(<<>>), ObjObj(<<>>)}

RECURSIVE ValuesOfDepth(_)
ValuesOfDepth(d) ==
    IF d = 0 THEN Leaves
    ELSE Leaves \cup {ArrObj(<<x>>) : x \in ValuesOfDepth(d - 1)}
                \cup {ObjObj(MapAssign(<<>>, <<"a">>, x)) : x \in ValuesOfDepth(d - 1)}

ValueTrees == ValuesOfDepth(MaxDepth)

InitValue ==
    /\ tree \in ValueTrees
    /\ call = Call("init", NoArg, Ok(<<>>))
    /\ pre = tree
    /\ ref = NoRef
    /\ log = NoLog
    /\ prelog = NoLog

Equals ==
    \E rhs \in ValueTrees :
        Observed("==", [NoArg EXCEPT !.value = rhs], Ok(isEqual(tree, rhs)))

NotEquals ==
    \E rhs \in ValueTrees :
        Observed("!=", [NoArg EXCEPT !.value = rhs], Ok(notEqual(tree, rhs)))

Is == \E T \in Types : Observed("is", [NoArg EXCEPT !.T = T], Ok(is(tree, T)))

Into == \E T \in Types : Observed("into", [NoArg EXCEPT !.T = T], into(tree, T))

RoundTrip ==
    \E ub \in UBOutcomes :
        Observed("roundTrip", [NoArg EXCEPT !.text = serialize(tree)],
                 parse(serialize(tree), ub))

NextValue ==
    \/ Equals
    \/ NotEquals
    \/ Is
    \/ Into
    \/ RoundTrip

SpecValue == InitValue /\ [][NextValue]_vars

(***************************************************************************)
(* A third specification for the parser: the text is drawn from the texts  *)
(* of at most MaxText characters over the characters numbers are made of,  *)
(* from the bracketed texts behind at most MaxBlank blanks, and from a     *)
(* list of texts of their own; each step asks one classification predicate *)
(* about the text or parses it.  arg.text holds the text throughout.       *)
(***************************************************************************)
MaxText == 4

MaxBlank == 2

NumberChars == {"-", "1", ".", "e", "E", "a"}

BlankChars == {" ", "\t", "\n"}

RECURSIVE TextsOfLength(_, _)
TextsOfLength(chars, n) ==
    IF n = 0 THEN {<<>>}
    ELSE {Append(text, c) : text \in TextsOfLength(chars, n - 1), c \in chars}

TextsUpTo(chars, n) == UNION {TextsOfLength(chars, k) : k \in 0..n}

NumberTexts == TextsUpTo(NumberChars, MaxText)

BracketBodies ==
    { <<"[", "1", "]">>,
      <<"{", "\"", "a", "\"", ":", "1", "}">> }

BracketTexts == {blanks \o body : blanks \in TextsUpTo(BlankChars, MaxBlank), body \in BracketBodies}

OtherTexts ==
    { <<"t", "r", "u">>,
      <<"t", "r", "u", "e">>,
      <<"n", "u", "l", "l">>,
      <<"\"", "a", "\"">>,
      <<"{", "a", ":", "1", "}">>,
      <<"{", "\"", "a", "\"", ":", "1", ",", "b", ":", "2", "}">>,
      <<"3", "0", "0", "0", "0", "0", "0", "0", "0", "0">>,
      <<"2", "1", "4", "7", "4", "8", "3", "6", "4", "7">>,
      <<"{", "\"", "b", "\"", ":", "1", ",", "\"", "a", "\"", ":", "n", "u", "l", "l", "}">>,
      <<"{", "\"", "a", "\"", ":", "{", "\"", "b", "\"", ":", "1", "}", ",", "\"", "c", "\"", ":", "\"", "x", "\"", "}">>,
      <<"{", "\"", "a", "\"", ":", "[", "1", "]", ",", "\"", "b", "\"", ":", "\"", "c", "\"", "}">>,
      <<"{", "\"", "a", "\"", ":", "1", ",", "\"", "\"", ":", "2", "}">>,
      <<"{", "\"", "a", "\"", ":", "1", ",", "\"", "a", "\"", ":", "2", "}">>,
      <<"\"">>,
      <<"\"", "\"">>,
      <<"\"", "a", "\\", "\"">>,
      <<"\"", "a", "\"", "b", "\"">>,
      <<"\"", "a">>,
      <<"{", "}">>,
      <<"{", " ", "}">> }

Texts == NumberTexts \cup BracketTexts \cup OtherTexts

InitText ==
    /\ tree = Empty
    /\ \E text \in Texts : call = Call("init", [NoArg EXCEPT !.text = text], Ok(<<>>))
    /\ pre = Empty
    /\ ref = NoRef
    /\ log = NoLog
    /\ prelog = NoLog

Asked(name, r) == Observed(name, [NoArg EXCEPT !.text = arg.text], r)

AskI == Asked("i", Ok(i(arg.text)))

AskDbl == Asked("dbl", Ok(dbl(arg.text)))

AskArr == Asked("arr", Ok(arr(arg.text)))

AskObj == Asked("obj", Ok(obj(arg.text)))

ParseText == \E ub \in UBOutcomes : Asked("parse", parse(arg.text, ub))

NextText ==
    \/ AskI
    \/ AskDbl
    \/ AskArr
    \/ AskObj
    \/ ParseText

SpecText == InitText /\ [][NextText]_vars

(***************************************************************************)
(* logging::Level: a bitmask over the four severities.                     *)
(***************************************************************************)
RECURSIVE BitAnd(_, _)
BitAnd(x, y) ==
    IF x = 0 \/ y = 0 THEN 0
    ELSE (x % 2) * (y % 2) + 2 * BitAnd(x \div 2, y \div 2)

RECURSIVE BitOr(_, _)
BitOr(x, y) ==
    IF x = 0 THEN y
    ELSE IF y = 0 THEN x
    ELSE (IF x % 2 = 1 \/ y % 2 = 1 THEN 1 ELSE 0) + 2 * BitOr(x \div 2, y \div 2)

RECURSIVE ShiftLeft(_, _)
ShiftLeft(x, n) == IF n = 0 THEN x ELSE ShiftLeft(2 * x, n - 1)

Dbg == ShiftLeft(1, 0)

Info == ShiftLeft(1, 1)

Warn == ShiftLeft(1, 2)

Panic == ShiftLeft(1, 3)

hasLevel(self, level) == BitAnd(level, self) # 0

DefaultLevel == BitOr(BitOr(Info, Warn), Panic)

(***************************************************************************)
(* logging::Log and logging::SubLog.  A logger is named by the path of     *)
(* sublogger names that leads to it from the Log the caller made, <<>>     *)
(* being that Log itself.  The record lg holds the Log: dest tells whether *)
(* it has a destination and out lists the messages that the last call     *)
(* wrote to it (the destination only ever receives, so what it held before *)
(* has no part in what a call does), level, threaded and locked (its       *)
(* mutex) are its members, and format and states                           *)
(* (subLoggerStates, with "none" for a name that is not in the map) are    *)
(* kept for every logger.  A SubLog hands every message to its parent, so  *)
(* its own destination, level and mutex take no part.                      *)
(***************************************************************************)
RootName == "root"

SubNames == {"a", "b"}

LogPaths == {<<>>, <<"a">>, <<"b">>, <<"a", "b">>}

Front(path) == SubSeq(path, 1, Len(path) - 1)

Last(path) == path[Len(path)]

DefaultFormat == <<"[", "{severity}", " (", "{name}", ")]: ", "{msg}", "\n">>

NoSubLoggers == [name \in SubNames |-> "none"]

RECURSIVE Made(_, _)
Made(lg, path) ==
    IF path = <<>> THEN TRUE
    ELSE Made(lg, Front(path)) /\ lg.states[Front(path)][Last(path)] # "none"

(***************************************************************************)
(* Log::lock blocks while the mutex is held, if threaded.                  *)
(***************************************************************************)
Blocks(lg, path) == path = <<>> /\ lg.threaded /\ lg.locked

(* Defective variant: a new sublogger starts disabled. *)
Log_subDisabled(lg, path, name) ==
    Done([lg EXCEPT !.states[path][name] = "off",
                    !.states[Append(path, name)] = NoSubLoggers,
                    !.format[Append(path, name)] = DefaultFormat],
         Append(path, name))

Log_sub(lg, path, name) ==
    Done([lg EXCEPT !.states[path][name] = "on",
                    !.states[Append(path, name)] = NoSubLoggers,
                    !.format[Append(path, name)] = DefaultFormat],
         Append(path, name))

(* Defective variant: the state of the sublogger is left as it is. *)
changeStateIgnoringName(lg, path, name, state) ==
    Done(lg, lg.states[path][name] # "none")

changeState(lg, path, name, state) ==
    IF lg.states[path][name] # "none"
    THEN Done([lg EXCEPT !.states[path][name] = "off"], TRUE)
    ELSE Done(lg, FALSE)

disable(lg, path, name) == changeState(lg, path, name, FALSE)

enable(lg, path, name) == changeState(lg, path, name, TRUE)

enabled(lg, path, name) ==
    IF name \in DOMAIN lg.states[path] /\ lg.states[path][name] # "none"
    THEN lg.states[path][name] = "on"
    ELSE FALSE

setFormat(lg, path, newFormat) == Done([lg EXCEPT !.format[path] = newFormat], <<>>)

setLevel(lg, newLevel) == Done([lg EXCEPT !.level = newLevel], <<>>)

setDest(lg, newDest) == Done([lg EXCEPT !.dest = newDest], <<>>)

levelToString(level) ==
    IF hasLevel(level, Dbg) THEN "DEBUG  "
    ELSE IF hasLevel(level, Info) THEN "INFO   "
    ELSE IF hasLevel(level, Warn) THEN "WARNING"
    ELSE IF hasLevel(level, Panic) THEN "PANIC  "
    ELSE "unreachable"

replace(needle, haystack, replacement) ==
    IF \A k \in DOMAIN haystack : haystack[k] # needle THEN haystack
    ELSE LET pos == CHOOSE k \in DOMAIN haystack :
                        /\ haystack[k] = needle
                        /\ \A j \in 1..(k - 1) : haystack[j] # needle
         IN SubSeq(haystack, 1, pos - 1) \o <<replacement>>
                \o SubSeq(haystack, pos + 1, Len(haystack))

RECURSIVE Concat(_)
Concat(pieces) == IF pieces = <<>> THEN "" ELSE Head(pieces) \o Concat(Tail(pieces))

formatMsg(format, level, fullName, line, file, message) ==
    replace("{msg}",
        replace("{severity}",
            replace("{name}",
                replace("{line}",
                    replace("{file}", format, file),
                    Concat(serializeInt(line))),
                fullName),
            level),
        message)

(***************************************************************************)
(* Log::doLogInternal: lock, write or throw, unlock.  The throw leaves the *)
(* function before unlock.                                                 *)
(***************************************************************************)
doLogInternal(lg, level, line, file, name, msg) ==
    IF lg.dest
    THEN Done([lg EXCEPT !.out = Append(@, Concat(formatMsg(lg.format[<<>>],
                                                             levelToString(level),
                                                             name, line, file, msg)))],
              <<>>)
    ELSE Fail([lg EXCEPT !.locked = lg.threaded], "logging::Error")

(***************************************************************************)
(* Log::dbgInternal .. panicInternal of the Log (path = <<>>) and          *)
(* SubLog::dbgInternal .. panicInternal of a sublogger, which differ in    *)
(* the severity alone; Log::dbg .. panic and SubLog::dbg .. panic.  The    *)
(* result "blocked" stands for a call that waits for the mutex.            *)
(***************************************************************************)
RECURSIVE logInternal(_, _, _, _, _, _, _)
logInternal(lg, path, level, line, file, name, msg) ==
    IF ~enabled(lg, path, name) THEN Done(lg, <<>>)
    ELSE IF path # <<>>
    THEN logInternal(lg, Front(path), level, line, file, Last(path) \o "/" \o name, msg)
    ELSE IF Blocks(lg, path) THEN Fail(lg, "blocked")
    ELSE doLogInternal(lg, level, line, file, RootName \o "/" \o name, msg)

logMsg(lg, path, level, line, file, msg) ==
    IF path # <<>>
    THEN logInternal(lg, Front(path), level, line, file, Last(path), msg)
    ELSE IF Blocks(lg, path) THEN Fail(lg, "blocked")
    ELSE doLogInternal(lg, level, line, file, RootName, msg)

(***************************************************************************)
(* A fourth specification for the logger.  The caller makes                *)
(* Log{"root", dest} and then creates subloggers, switches them, sets      *)
(* format, level and destination, and logs.  The constructors leave the    *)
(* member threaded without a value (the parameter is not used), so its     *)
(* value is whatever the build makes of it.                                *)
(***************************************************************************)
Severities == {Dbg, Info, Warn, Panic}

Levels == {DefaultLevel, Dbg}

Formats == {DefaultFormat, <<"{name}">>}

FormatLoggers == {<<>>, <<"a">>}

LogLine == 7

LogFile == "main.cpp"

LogMessage == "m"

NewLog(threaded) ==
    [dest |-> TRUE, out |-> <<>>, level |-> DefaultLevel, threaded |-> threaded,
     locked |-> FALSE,
     format |-> [path \in LogPaths |-> DefaultFormat],
     states |-> [path \in LogPaths |-> NoSubLoggers]]

InitLog ==
    /\ tree = Empty
    /\ call = Call("init", NoArg, Ok(<<>>))
    /\ pre = Empty
    /\ ref = NoRef
    /\ \E threaded \in BOOLEAN : log = NewLog(threaded)
    /\ prelog = log.states

Called(lg) == [lg EXCEPT !.out = <<>>]

Logger(name, a, r) ==
    /\ r.err # "blocked"
    /\ log' = r.self
    /\ prelog' = log.states
    /\ call' = Call(name, a, Result(r))
    /\ UNCHANGED <<tree, pre, ref>>

Sub ==
    \E path \in LogPaths, name \in SubNames :
        /\ Made(log, path)
        /\ Append(path, name) \in LogPaths
        /\ ~Blocks(log, path)
        /\ Logger("sub", [NoArg EXCEPT !.path = path, !.name = name],
                  Log_sub(Called(log), path, name))

Disable ==
    \E path \in LogPaths, name \in SubNames :
        /\ Made(log, path)
        /\ Logger("disable", [NoArg EXCEPT !.path = path, !.name = name],
                  disable(Called(log), path, name))

Enable ==
    \E path \in LogPaths, name \in SubNames :
        /\ Made(log, path)
        /\ Logger("enable", [NoArg EXCEPT !.path = path, !.name = name],
                  enable(Called(log), path, name))

SetFormat ==
    \E path \in FormatLoggers, newFormat \in Formats :
        /\ Made(log, path)
        /\ ~Blocks(log, path)
        /\ Logger("setFormat", [NoArg EXCEPT !.path = path, !.text = newFormat],
                  setFormat(Called(log), path, newFormat))

SetLevel ==
    \E newLevel \in Levels :
        /\ ~Blocks(log, <<>>)
        /\ Logger("setLevel", [NoArg EXCEPT !.value = newLevel], setLevel(Called(log), newLevel))

SetDest ==
    \E newDest \in BOOLEAN :
        /\ ~Blocks(log, <<>>)
        /\ Logger("setDest", [NoArg EXCEPT !.value = newDest], setDest(Called(log), newDest))

LogMsg ==
    \E path \in LogPaths, level \in Severities :
        /\ Made(log, path)
        /\ Logger("log", [NoArg EXCEPT !.path = path, !.value = level, !.text = LogMessage],
                  logMsg(Called(log), path, level, LogLine, LogFile, LogMessage))

NextLog ==
    \/ Sub
    \/ Disable
    \/ Enable
    \/ SetFormat
    \/ SetLevel
    \/ SetDest
    \/ LogMsg

SpecLog == InitLog /\ [][NextLog]_vars

(***************************************************************************)
(* Properties.  Supported(o): o is built of the variants JSON has, with no *)
(* Empty node.  Existed: name was a key of the Mapping at path before the  *)
(* call.                                                                   *)
(***************************************************************************)
RECURSIVE Supported(_)
Supported(o) ==
    CASE o.t = "Empty" -> FALSE
      [] o.t = "Arr" -> \A k \in DOMAIN o.v : Supported(o.v[k])
      [] o.t = "Obj" -> \A k \in DOMAIN o.v : Supported(o.v[k].second)
      [] OTHER -> TRUE

Existed(o, path, name) ==
    /\ Resolves(o, path)
    /\ NodeAt(o, path).t = "Obj"
    /\ MapHas(NodeAt(o, path).v, name)

Ascending(ks) == \A k \in 1..(Len(ks) - 1) : StrLess(ks[k], ks[k + 1])

RECURSIVE KeysAscending(_)
KeysAscending(o) ==
    CASE o.t = "Arr" -> \A k \in DOMAIN o.v : KeysAscending(o.v[k])
      [] o.t = "Obj" -> /\ Ascending(MapKeys(o.v))
                        /\ \A k \in DOMAIN o.v : KeysAscending(o.v[k].second)
      [] OTHER -> TRUE

LeastKey(o) ==
    CHOOSE k \in {o.v[n].first : n \in DOMAIN o.v} :
        \A n \in DOMAIN o.v : o.v[n].first = k \/ StrLess(k, o.v[n].first)

RECURSIVE Creatable(_, _)
Creatable(o, path) ==
    IF path = <<>> THEN o.t = "Obj"
    ELSE \/ o.t = "Empty"
         \/ /\ o.t = "Obj"
            /\ \/ ~MapHas(o.v, Head(path))
               \/ Creatable(MapAt(o.v, Head(path)), Tail(path))

RECURSIVE WithPath(_, _)
WithPath(o, path) ==
    IF path = <<>> THEN o
    ELSE LET m == IF o.t = "Obj" THEN o.v ELSE <<>>
             child == IF MapHas(m, Head(path)) THEN MapAt(m, Head(path)) ELSE ObjObj(<<>>)
         IN ObjObj(MapAssign(m, Head(path), WithPath(child, Tail(path))))

Prefixes(path) == {SubSeq(path, 1, n) : n \in 0..Len(path)}

Conflicts(o, prefix) ==
    /\ Resolves(o, prefix)
    /\ NodeAt(o, prefix).t \notin {"Empty", "Obj"}

BadType == {"ObjectError", "BadTypeError"}

(* C1: for every value tree v without an Empty node, parsing the text      *)
(* v.serialize() succeeds and gives an Object that operator== finds equal  *)
(* to v.                                                                   *)
C1_RoundTrip ==
    (op = "roundTrip" /\ Supported(tree)) => (res.ok /\ isEqual(res.val, tree))

(* C2: for two Objects that are not Empty, a == b is true exactly when     *)
(* they have the same variant and the same contents, compared deeply;      *)
(* Null == Null and [null] == [null] included.                             *)
C2_Equality ==
    (op = "==" /\ tree.t # "Empty" /\ arg.value.t # "Empty")
        => (res.val = (tree = arg.value))

(* C3 as stated: whenever one of the two Objects compared is Empty,        *)
(* operator== answers false and operator!= answers true, also when both    *)
(* are Empty.                                                              *)
C3_EmptyNeverEqual ==
    (tree.t = "Empty" \/ arg.value.t = "Empty")
        => /\ op = "==" => res.val = FALSE
           /\ op = "!=" => res.val = TRUE

(* C3 amended: two Empty Objects compare equal (operator== true,           *)
(* operator!= false), and an Empty Object never equals an Object of        *)
(* another variant.                                                        *)
C3_EmptyEquality ==
    (tree.t = "Empty" \/ arg.value.t = "Empty")
        => /\ op = "==" => res.val = (tree.t = arg.value.t)
           /\ op = "!=" => res.val = (tree.t # arg.value.t)

C3_Witness ==
    /\ op = "=="
    /\ tree = Empty
    /\ arg.value = Empty
    /\ res.val = TRUE

(* C4: is<T>() is true exactly when T is the active variant; into<T>()     *)
(* returns the contents when it is and fails with BadTypeError when it is  *)
(* not, without coercing, and the Object is left as it was.                *)
C4_TypedExtraction ==
    /\ op = "is" => res.val = (arg.T = tree.t)
    /\ op = "into" => IF arg.T = tree.t
                      THEN res.ok /\ res.val = tree.v
                      ELSE ~res.ok /\ res.err = "BadTypeError"
    /\ op \in {"is", "into"} => tree = pre

C4_Witness ==
    /\ op = "into"
    /\ tree.t = "Int"
    /\ arg.T = "Double"
    /\ ~res.ok
    /\ res.err = "BadTypeError"

C6_PathFormReturnsAdded ==
    (op \in {"addPropertyPath", "Config::addProperty"} /\ res.ok)
        => res.val = ~Existed(pre, arg.path, arg.name)

(* C7: every Mapping node of the tree, at every nesting level, holds its   *)
(* keys once each in strictly ascending order; keys() returns them in that *)
(* order and serialize() writes the least key first.                       *)
C7_KeysUniqueAscending ==
    /\ KeysAscending(tree)
    /\ (op = "keys" /\ res.ok)
           => /\ Ascending(res.val)
              /\ {res.val[k] : k \in DOMAIN res.val} = {tree.v[k].first : k \in DOMAIN tree.v}
    /\ (op = "serialize" /\ tree.t = "Obj" /\ tree.v # <<>>)
           => SubSeq(res.val, 1, 2 + Len(LeastKey(tree))) = <<"{", "\"">> \o LeastKey(tree)

C7_Witness ==
    /\ op = "addProperty"
    /\ res.ok
    /\ pre.t = "Obj"
    /\ MapKeys(pre.v) = << <<"b">> >>
    /\ arg.name = <<"a">>
    /\ MapKeys(tree.v) = << <<"a">>, <<"b">> >>

(* C8: getOrInsert<Obj>(path) with a non-empty path, on an Empty Object or *)
(* on Mappings in which the rest of the path is absent, succeeds, turns an *)
(* Empty self into a Mapping, inserts an empty Mapping under every missing *)
(* segment and returns a reference to the node stored at path; a value     *)
(* written through the reference under k is what get(path + [k]) returns.  *)
C8_GetOrInsertAutoCreates ==
    /\ (op = "getOrInsert" /\ arg.T = "Obj" /\ arg.path # <<>> /\ Creatable(pre, arg.path))
           => /\ res.ok
              /\ tree = WithPath(pre, arg.path)
              /\ ref = RefTo(arg.path)
              /\ Resolves(tree, arg.path)
              /\ res.val = NodeAt(tree, arg.path)
    /\ op = "writeThroughRef"
           => getPath(tree, arg.value.t, Append(arg.path, arg.name)) = Ok(arg.value.v)

C8_Witness ==
    /\ op = "getOrInsert"
    /\ arg.T = "Obj"
    /\ pre = Empty
    /\ Len(arg.path) = 2
    /\ res.ok
    /\ NodeAt(tree, arg.path) = ObjObj(<<>>)
    /\ ref = RefTo(arg.path)

(* C9: when a prefix of the path resolves to a node that is neither Empty  *)
(* nor a Mapping (a proper prefix for getOrInsert; any prefix for          *)
(* addProperty, whose target is the node at path), the call fails with an  *)
(* error of the BadType family (ObjectError or BadTypeError) and the node  *)
(* keeps its variant and contents.                                         *)
C9_NeverConverts ==
    /\ op = "getOrInsert"
           => \A q \in Prefixes(arg.path) \ {arg.path} :
                  Conflicts(pre, q)
                      => /\ ~res.ok
                         /\ res.err \in BadType
                         /\ Resolves(tree, q)
                         /\ NodeAt(tree, q) = NodeAt(pre, q)
    /\ op = "addPropertyPath"
           => \A q \in Prefixes(arg.path) :
                  Conflicts(pre, q)
                      => /\ ~res.ok
                         /\ res.err \in BadType
                         /\ Resolves(tree, q)
                         /\ NodeAt(tree, q) = NodeAt(pre, q)

C9_Witness ==
    /\ op = "getOrInsert"
    /\ Len(arg.path) = 2
    /\ Conflicts(pre, <<Head(arg.path)>>)
    /\ NodeAt(pre, <<Head(arg.path)>>).t = "Null"
    /\ ~res.ok
    /\ tree = pre

(* C10: whenever get, getOrInsert<T>, addProperty or push fails, the whole *)
(* tree is exactly as it was before the call.                              *)
C10_AllOrNothing ==
    (/\ op \in {"get", "getOrInsert", "addProperty", "addPropertyPath",
                "Config::addProperty", "push", "pushPath"}
     /\ ~res.ok)
        => tree = pre

(***************************************************************************)
(* C11.  After a successful push(value) or push(path, value) on a Sequence *)
(* of length n, the Sequence has length n + 1, its element n is value with *)
(* value's variant, and its elements 0..n-1 are the elements it had, in    *)
(* their order.  Checked after every push of every run, so for every       *)
(* sequence of pushes.                                                     *)
(***************************************************************************)
Pushed(before, after, value) ==
    /\ before.t = "Arr"
    /\ after.t = "Arr"
    /\ Len(after.v) = Len(before.v) + 1
    /\ after.v[Len(after.v)] = value
    /\ SubSeq(after.v, 1, Len(before.v)) = before.v

C11_PushAppends ==
    /\ (op = "push" /\ res.ok) => Pushed(pre, tree, arg.value)
    /\ (op = "pushPath" /\ res.ok) =>
           /\ Resolves(pre, arg.path)
           /\ Resolves(tree, arg.path)
           /\ Pushed(NodeAt(pre, arg.path), NodeAt(tree, arg.path), arg.value)

C11_Witness ==
    /\ op = "push"
    /\ res.ok
    /\ Len(pre.v) = 1
    /\ pre.v[1] # arg.value

(***************************************************************************)
(* C12.  push does not create anything: push(value) on an Object that is   *)
(* not a Sequence (Empty included), and push(path, value) where a key of   *)
(* path is missing or path does not end at a Sequence, fail with an error  *)
(* and leave the Object as it was, with no Sequence and no intermediate    *)
(* Mapping added.                                                          *)
(***************************************************************************)
EndsAtSequence(o, path) == Resolves(o, path) /\ NodeAt(o, path).t = "Arr"

C12_PushDoesNotCreate ==
    /\ (op = "push" /\ pre.t # "Arr") => (~res.ok /\ tree = pre)
    /\ (op = "pushPath" /\ ~EndsAtSequence(pre, arg.path)) => (~res.ok /\ tree = pre)

C12_Witness ==
    /\ op = "pushPath"
    /\ pre.t = "Obj"
    /\ Len(arg.path) = 2
    /\ MapHas(pre.v, arg.path[1])
    /\ ~Resolves(pre, arg.path)
    /\ ~res.ok

(***************************************************************************)
(* C13.  get<T>(path) with the empty path returns self after the check of  *)
(* into<T>.  With a path that is not empty it fails with a BadType error   *)
(* (an ObjectError) when self is not a Mapping, fails with the error of a  *)
(* missing key when the first segment is not a key of self, and otherwise  *)
(* returns get<T>(rest) of the child stored under the first segment.  The  *)
(* missing key is reported by std::map::at, as std::out_of_range.          *)
(***************************************************************************)
MissingKey == {"out_of_range"}

C13_PathRead ==
    op = "get" =>
        /\ tree = pre
        /\ arg.path = <<>> =>
               /\ res = into(tree, arg.T)
               /\ res.ok => (tree.t = arg.T /\ res.val = tree.v)
        /\ (arg.path # <<>> /\ tree.t # "Obj") =>
               (~res.ok /\ res.err = "ObjectError" /\ res.err \in BadType)
        /\ (arg.path # <<>> /\ tree.t = "Obj" /\ ~MapHas(tree.v, Head(arg.path))) =>
               (~res.ok /\ res.err \in MissingKey)
        /\ (arg.path # <<>> /\ tree.t = "Obj" /\ MapHas(tree.v, Head(arg.path))) =>
               res = getPath(MapAt(tree.v, Head(arg.path)), arg.T, Tail(arg.path))
        /\ Resolves(tree, arg.path) => res = into(NodeAt(tree, arg.path), arg.T)

C13_Witness ==
    /\ op = "get"
    /\ tree.t = "Obj"
    /\ Len(arg.path) = 2
    /\ MapHas(tree.v, arg.path[1])
    /\ MapAt(tree.v, arg.path[1]).t = "Obj"
    /\ ~MapHas(MapAt(tree.v, arg.path[1]).v, arg.path[2])
    /\ res.err \in MissingKey

(***************************************************************************)
(* The grammar of the numbers: an Integer text is an optional '-' and then *)
(* one or more digits; a Float text is an optional '-', one or more        *)
(* digits, and then either '.', one or more digits and optionally e or E   *)
(* with a signed integer of at least one digit, or e or E with such an     *)
(* integer right away.                                                     *)
(***************************************************************************)
AllDigits(s) == s # <<>> /\ \A k \in DOMAIN s : isdigit(s[k])

Unsigned(s) == IF s # <<>> /\ s[1] = "-" THEN Tail(s) ELSE s

IsIntegerText(s) == AllDigits(Unsigned(s))

IsExponentMark(c) == c = "e" \/ c = "E"

IsFloatText(s) ==
    \E dot \in 2..(Len(s) - 1) :
        /\ AllDigits(Unsigned(SubSeq(s, 1, dot - 1)))
        /\ \/ /\ s[dot] = "."
              /\ \/ AllDigits(SubSeq(s, dot + 1, Len(s)))
                 \/ \E mark \in (dot + 2)..(Len(s) - 1) :
                        /\ AllDigits(SubSeq(s, dot + 1, mark - 1))
                        /\ IsExponentMark(s[mark])
                        /\ IsIntegerText(SubSeq(s, mark + 1, Len(s)))
           \/ /\ IsExponentMark(s[dot])
              /\ IsIntegerText(SubSeq(s, dot + 1, Len(s)))

(***************************************************************************)
(* C14.  Parser::i(s) is true if and only if s is an optional leading '-'  *)
(* followed by one or more decimal digits and nothing else.                *)
(***************************************************************************)
C14_IntegerClassification ==
    op = "i" => (res.val <=> IsIntegerText(arg.text))

(***************************************************************************)
(* C15.  Parser::dbl(s) is true if and only if s is a Float text; a text   *)
(* with no digit after '.', no digit before '.', or no digit after e or E  *)
(* is not a Float.                                                         *)
(***************************************************************************)
C15_FloatClassification ==
    op = "dbl" => (res.val <=> IsFloatText(arg.text))

(***************************************************************************)
(* C16.  parse treats the text as a Sequence exactly when its first        *)
(* character that is not whitespace is '[', and as a Mapping exactly when  *)
(* it is '{', for leading whitespace made of any mix of spaces, tabs and   *)
(* newlines.                                                               *)
(***************************************************************************)
RECURSIVE FirstNonBlank(_)
FirstNonBlank(s) ==
    IF s = <<>> THEN ""
    ELSE IF Head(s) \in BlankChars THEN FirstNonBlank(Tail(s))
    ELSE Head(s)

C16_BracketClassification ==
    /\ op = "arr" => (res.val <=> FirstNonBlank(arg.text) = "[")
    /\ op = "obj" => (res.val <=> FirstNonBlank(arg.text) = "{")
    /\ op = "parse" =>
           /\ FirstNonBlank(arg.text) = "[" <=> (res.ok /\ res.val.t = "Arr")
           /\ FirstNonBlank(arg.text) = "{" <=> (res.ok /\ res.val.t = "Obj")

(***************************************************************************)
(* C17.  Every text that matches none of the seven grammar branches        *)
(* (Sequence, Mapping, Float, Integer, Boolean, Null, String) makes parse  *)
(* fail with ParseError and with no other error kind.                      *)
(***************************************************************************)
IsStringText(s) ==
    /\ Len(s) >= 2
    /\ s[1] = "\""
    /\ s[Len(s)] = "\"" /\ s[Len(s) - 1] # "\\"
    /\ \A k \in 2..(Len(s) - 1) : s[k] = "\"" => s[k - 1] = "\\"

MatchesNoBranch(s) ==
    /\ FirstNonBlank(s) \notin {"[", "{"}
    /\ ~IsFloatText(s)
    /\ ~IsIntegerText(s)
    /\ s \notin {<<"t", "r", "u", "e">>, <<"f", "a", "l", "s", "e">>, <<"n", "u", "l", "l">>}
    /\ ~IsStringText(s)

C17_UnknownTokenIsParseError ==
    (op = "parse" /\ MatchesNoBranch(arg.text)) => (~res.ok /\ res.err = "ParseError")

(***************************************************************************)
(* The members of a mapping text, read off the text itself: the text       *)
(* between the outer braces is cut at the commas that stand outside every  *)
(* string and every nested bracket, and each member at its ':' in the same *)
(* way, into the text of the key and the text of the value.                *)
(***************************************************************************)
RECURSIVE SplitScan(_, _, _, _, _, _)
SplitScan(s, sep, k, depth, quoted, parts) ==
    IF k > Len(s) THEN parts
    ELSE LET c == s[k]
             toggles == c = "\"" /\ (k = 1 \/ s[k - 1] # "\\")
             opens == ~quoted /\ ~toggles /\ c \in {"[", "{"}
             closes == ~quoted /\ ~toggles /\ c \in {"]", "}"}
         IN IF c = sep /\ depth = 0 /\ ~quoted
            THEN SplitScan(s, sep, k + 1, depth, quoted, Append(parts, <<>>))
            ELSE SplitScan(s, sep, k + 1,
                           IF opens THEN depth + 1 ELSE IF closes THEN depth - 1 ELSE depth,
                           IF toggles THEN ~quoted ELSE quoted,
                           [parts EXCEPT ![Len(parts)] = Append(@, c)])

SplitTop(s, sep) == SplitScan(s, sep, 1, 0, FALSE, <<<<>>>>)

RECURSIVE Trim(_)
Trim(s) ==
    IF s = <<>> THEN s
    ELSE IF Head(s) \in BlankChars THEN Trim(Tail(s))
    ELSE IF s[Len(s)] \in BlankChars THEN Trim(SubSeq(s, 1, Len(s) - 1))
    ELSE s

IsMappingText(s) ==
    /\ Len(Trim(s)) >= 2
    /\ Head(Trim(s)) = "{"
    /\ Trim(s)[Len(Trim(s))] = "}"

Member(text) ==
    [key |-> Trim(SplitTop(text, ":")[1]),
     value |-> IF Len(SplitTop(text, ":")) >= 2 THEN Trim(SplitTop(text, ":")[2]) ELSE <<>>]

Members(s) ==
    IF Trim(SubSeq(Trim(s), 2, Len(Trim(s)) - 1)) = <<>> THEN <<>>
    ELSE [k \in DOMAIN SplitTop(SubSeq(Trim(s), 2, Len(Trim(s)) - 1), ",") |->
             Member(SplitTop(SubSeq(Trim(s), 2, Len(Trim(s)) - 1), ",")[k])]

(***************************************************************************)
(* C18.  Parsing a mapping text in which a top-level key, the first or a   *)
(* later one, is not enclosed in double quotes fails with ParseError and   *)
(* returns no Object.                                                      *)
(***************************************************************************)
HasUnquotedKey(s) ==
    IsMappingText(s) /\ \E k \in DOMAIN Members(s) : ~IsStringText(Members(s)[k].key)

C18_UnquotedKeysRejected ==
    (op = "parse" /\ HasUnquotedKey(arg.text)) => (~res.ok /\ res.err = "ParseError")

C18_Witness ==
    /\ op = "parse"
    /\ IsMappingText(arg.text)
    /\ Len(Members(arg.text)) = 2
    /\ IsStringText(Members(arg.text)[1].key)
    /\ ~IsStringText(Members(arg.text)[2].key)
    /\ res.err = "ParseError"

(***************************************************************************)
(* C19.  For every decimal integer literal in the signed 64-bit range,     *)
(* values outside the signed 32-bit range such as 3000000000 included,     *)
(* parse returns an Integer holding exactly that value (its decimal digits *)
(* are the literal), and a text classified as Integer never fails numeric  *)
(* conversion.                                                             *)
(***************************************************************************)
C19_Integers64Bit ==
    op = "parse" =>
        /\ IsIntegerText(arg.text) =>
               /\ res.ok
               /\ res.val.t = "Int"
               /\ serializeInt(res.val.v) = arg.text
        /\ i(arg.text) => res.err # "ExtractionError"

(***************************************************************************)
(* C20.  For a mapping text whose top-level keys are quoted and pairwise   *)
(* distinct, parse returns a Mapping whose keys are exactly the top-level  *)
(* keys of the text (no key of a nested mapping is lifted, no top-level    *)
(* key is skipped), and the value under each key equals parse of the text  *)
(* of that key's value, a string value with its quotes.  The text with no  *)
(* member at all is left to C27 and whitespace around the braces to C16.   *)
(***************************************************************************)
KeysQuotedAndDistinct(s) ==
    /\ IsMappingText(s)
    /\ Trim(s) = s
    /\ Members(s) # <<>>
    /\ \A k \in DOMAIN Members(s) : IsStringText(Members(s)[k].key)
    /\ \A k, n \in DOMAIN Members(s) : Members(s)[k].key = Members(s)[n].key => k = n

TopLevelKeys(s) == {stripQuotes(Members(s)[k].key) : k \in DOMAIN Members(s)}

C20_MappingParsingComplete ==
    (op = "parse" /\ KeysQuotedAndDistinct(arg.text)) =>
        /\ res.ok
        /\ res.val.t = "Obj"
        /\ {res.val.v[k].first : k \in DOMAIN res.val.v} = TopLevelKeys(arg.text)
        /\ \A k \in DOMAIN Members(arg.text) :
               /\ MapHas(res.val.v, stripQuotes(Members(arg.text)[k].key))
               /\ \A ub \in UBOutcomes :
                      Ok(MapAt(res.val.v, stripQuotes(Members(arg.text)[k].key)))
                          = parse(Members(arg.text)[k].value, ub)

(***************************************************************************)
(* What a destination is expected to receive for one message: the text of  *)
(* the severity, and the message laid out by a format string.              *)
(***************************************************************************)
SeverityText(level) ==
    CASE level = Dbg -> "DEBUG  "
      [] level = Info -> "INFO   "
      [] level = Warn -> "WARNING"
      [] level = Panic -> "PANIC  "

Expected(format, level, name) ==
    IF format = <<"{name}">> THEN name
    ELSE "[" \o SeverityText(level) \o " (" \o name \o ")]: " \o LogMessage \o "\n"

(***************************************************************************)
(* C21.  A new sublogger is enabled, and a message logged through a direct *)
(* sublogger of the Log (one made with sub(name) on it) is written to the  *)
(* Log's destination, laid out by the Log's format string, under the name  *)
(* "<name of the Log>/<name of the sublogger>".  Stated for a Log that has *)
(* a destination and for the severities in its level.                      *)
(***************************************************************************)
C21_SubloggerWritesToParent ==
    /\ op = "sub" => (res.ok /\ enabled(log, arg.path, arg.name))
    /\ (/\ op = "log"
        /\ Len(arg.path) = 1
        /\ log.states[<<>>][arg.path[1]] = "on"
        /\ log.dest
        /\ hasLevel(log.level, arg.value)) =>
           /\ res.ok
           /\ log.out = <<Expected(log.format[<<>>], arg.value, RootName \o "/" \o arg.path[1])>>

C21_Witness ==
    /\ op = "log"
    /\ arg.path = <<"a">>
    /\ log.format[<<>>] = <<"{name}">>
    /\ log.format[<<"a">>] = DefaultFormat
    /\ log.out = <<"root/a">>

(***************************************************************************)
(* C22.  disable(name) returns true for a sublogger made with sub() and    *)
(* leaves it disabled, and a message logged through a disabled sublogger   *)
(* writes nothing to the destination; for a name that was never made,      *)
(* disable returns false and changes no sublogger state.                   *)
(***************************************************************************)
C22_DisableStopsOutput ==
    /\ (op = "disable" /\ prelog[arg.path][arg.name] # "none") =>
           /\ res.val = TRUE
           /\ log.states[arg.path][arg.name] = "off"
           /\ ~enabled(log, arg.path, arg.name)
    /\ (op = "disable" /\ prelog[arg.path][arg.name] = "none") =>
           /\ res.val = FALSE
           /\ log.states = prelog
    /\ (op = "log" /\ arg.path # <<>> /\ log.states[Front(arg.path)][Last(arg.path)] = "off") =>
           /\ res.ok
           /\ log.out = <<>>

C22_Witness ==
    /\ op = "log"
    /\ arg.path = <<"a">>
    /\ log.states[<<>>]["a"] = "off"
    /\ log.dest
    /\ ~log.locked
    /\ log.out = <<>>

(***************************************************************************)
(* C23.  After enable(name) has returned true for a sublogger made with    *)
(* sub(), enabled(name) is true, also when disable(name) was called        *)
(* before, and the messages logged through that sublogger are written to   *)
(* the destination again.                                                  *)
(***************************************************************************)
C23_EnableReenables ==
    (op = "enable" /\ res.val = TRUE) =>
        /\ enabled(log, arg.path, arg.name)
        /\ log.states[arg.path][arg.name] = "on"

(***************************************************************************)
(* C24.  A message of severity S is written to the destination only if the *)
(* level of the Log, the mask given to the constructor (by default Info,   *)
(* Warn and Panic) or to setLevel, contains S; with the default mask no    *)
(* Dbg message is written.                                                 *)
(***************************************************************************)
C24_LevelSelects ==
    (op = "log" /\ log.out # <<>>) => hasLevel(log.level, arg.value)

(***************************************************************************)
(* C28.  For a chain root -> a -> b made with root.sub(a) and a.sub(b),    *)
(* with every sublogger enabled, each message logged through b is written  *)
(* exactly once to the destination of root, under a name that holds the    *)
(* names of root, a and b in that order.                                   *)
(***************************************************************************)
C28_NestedSubloggersWrite ==
    (/\ op = "log"
     /\ Len(arg.path) = 2
     /\ log.states[<<>>][arg.path[1]] = "on"
     /\ log.states[<<arg.path[1]>>][arg.path[2]] = "on"
     /\ log.dest
     /\ hasLevel(log.level, arg.value)) =>
        log.out = <<Expected(log.format[<<>>], arg.value,
                             RootName \o "/" \o arg.path[1] \o "/" \o arg.path[2])>>

(***************************************************************************)
(* C29.  The mutex of the logger is released on every exit of every        *)
(* logging operation: after a call to dbg/info/warn/panic, setFormat,      *)
(* setLevel, setDest or sub has returned or thrown, the one that throws    *)
(* because no destination is set included, the mutex is unlocked.          *)
(***************************************************************************)
C29_MutexReleased ==
    op \in {"log", "setFormat", "setLevel", "setDest", "sub"} => ~log.locked

(***************************************************************************)
(* C25.  Parsing terminates on every finite input: the key loop of mapping *)
(* parsing moves its scan position past the consumed value on every        *)
(* iteration, also when the same key occurs more than once at the top      *)
(* level of the mapping text.                                              *)
(***************************************************************************)
C25_ParsingTerminates == op = "parse" => res.err # "nontermination"

(***************************************************************************)
(* C26.  A text that starts with '"' is a String exactly when it has at    *)
(* least two characters, ends with an unescaped '"' and holds no other     *)
(* unescaped '"'; every other text that starts with '"' makes parse fail   *)
(* with ParseError, and the classification reads no character outside the  *)
(* text.                                                                   *)
(***************************************************************************)
C26_StringClassification ==
    (op = "parse" /\ arg.text # <<>> /\ arg.text[1] = "\"") =>
        IF IsStringText(arg.text)
        THEN res.ok /\ res.val.t = "Str"
        ELSE ~res.ok /\ res.err = "ParseError"

(***************************************************************************)
(* C27.  Parsing a mapping text that holds no key, such as "{}" or "{ }",  *)
(* returns a Mapping with no entries instead of failing.                   *)
(***************************************************************************)
C27_EmptyMappingParses ==
    (op = "parse" /\ arg.text \in {<<"{", "}">>, <<"{", " ", "}">>}) =>
        (res.ok /\ res.val = ObjObj(<<>>))

(***************************************************************************)
(* The frame of a path write.  FramePaths are the paths a tree of the      *)
(* model can hold, Written is the path of the entry that addProperty       *)
(* assigns, and KeySet(o) is the set of keys of a Mapping (no key for any  *)
(* other node).                                                            *)
(***************************************************************************)
FramePaths == UNION {PathsOfLength(n) : n \in 0..(MaxPath + 1)}

IsPrefix(p, q) == Len(p) <= Len(q) /\ SubSeq(q, 1, Len(p)) = p

Written == Append(arg.path, arg.name)

KeySet(o) == IF o.t = "Obj" THEN {o.v[n].first : n \in DOMAIN o.v} ELSE {}

PathWrite == op \in {"getOrInsert", "addPropertyPath"} /\ res.ok

(***************************************************************************)
(* C30 as stated.  After a successful getOrInsert(path) or                 *)
(* addProperty(path, {name, value}), every path that resolved before the   *)
(* call, other than path + [name] for addProperty, still resolves, to a    *)
(* node of the same variant; a node on the chain along path keeps every    *)
(* key it held, and every other node is as it was.                         *)
(***************************************************************************)
C30_FrameAsStated ==
    PathWrite =>
        \A p \in FramePaths :
            (Resolves(pre, p) /\ ~(op = "addPropertyPath" /\ p = Written)) =>
                /\ Resolves(tree, p)
                /\ NodeAt(tree, p).t = NodeAt(pre, p).t
                /\ IF IsPrefix(p, arg.path)
                   THEN KeySet(NodeAt(pre, p)) \subseteq KeySet(NodeAt(tree, p))
                   ELSE NodeAt(tree, p) = NodeAt(pre, p)

(***************************************************************************)
(* C30 amended.  After a successful getOrInsert(path) or                   *)
(* addProperty(path, {name, value}), every path that resolved before the   *)
(* call and that is not, for addProperty, path + [name] or a path below it *)
(* still resolves.  A node on the chain along path that was a Mapping or   *)
(* Empty is a Mapping or as it was, and holds every key it held; every     *)
(* other node is as it was.                                                *)
(***************************************************************************)
C30_Frame ==
    PathWrite =>
        \A p \in FramePaths :
            (Resolves(pre, p) /\ ~(op = "addPropertyPath" /\ IsPrefix(Written, p))) =>
                /\ Resolves(tree, p)
                /\ IF IsPrefix(p, arg.path) /\ NodeAt(pre, p).t \in {"Empty", "Obj"}
                   THEN /\ NodeAt(tree, p).t \in {NodeAt(pre, p).t, "Obj"}
                        /\ KeySet(NodeAt(pre, p)) \subseteq KeySet(NodeAt(tree, p))
                   ELSE NodeAt(tree, p) = NodeAt(pre, p)

C30_Witness ==
    /\ PathWrite
    /\ tree # pre
    /\ \E p \in FramePaths :
           /\ Resolves(pre, p)
           /\ ~IsPrefix(p, arg.path)
           /\ ~(op = "addPropertyPath" /\ IsPrefix(Written, p))

============================================================================
